---- MODULE Spec2Model ----
(***************************************************************************)
(* Model of prepostchecker.py: the interactive input collection            *)
(* (get_inputs), the directory bootstrap of the main block and the batch   *)
(* driver prepostchecks with its per-device session lifecycle.             *)
(*                                                                         *)
(* Text that the program only concatenates or measures (commands, device   *)
(* replies, file contents) is a TLA+ string; text the program inspects     *)
(* character by character (the device prompt, the operator's answers) is a *)
(* sequence of one-character strings.                                      *)
(***************************************************************************)
EXTENDS Integers, Sequences, FiniteSets, TLC

VARIABLES
    devices,          \* prepostchecks argument: list of device addresses
    commands,         \* prepostchecks argument: list of show commands
    prepost,          \* run mode as returned by get_inputs
    port,             \* SSH port as returned by get_inputs
    entered,          \* the last exchange of get_inputs with the operator
    dirs,             \* the output directories that exist
    fs,               \* the files on disk: path -> content
    now,              \* the wall clock as datetime.now() last returned it
    pc,               \* position of the program
    i,                \* number of devices the for loop has taken from devices
    k,                \* number of commands the inner loop has executed
    net_connect,      \* the session the local net_connect refers to (0: unbound)
    sessions,         \* the sessions the program has opened and not closed
    hostname,         \* local hostname
    show_fullpath,    \* local show_fullpath
    backup_fullpath,  \* local backup_fullpath
    output,           \* local output, the log buffer
    attempts,         \* the calls of ConnectHandler and how each ended
    prompt,           \* what find_prompt returned for the current device
    replies,          \* what send_command returned for the current device
    writes,           \* the open(..., "w") calls that succeeded
    status,           \* the lines printed on the status channel
    run               \* how often the program has been started

vars == <<devices, commands, prepost, port, entered, dirs, fs, now, pc,
          i, k, net_connect, sessions, hostname, show_fullpath,
          backup_fullpath, output, attempts, prompt, replies, writes, status,
          run>>

(***************************************************************************)
(* Bounds of the model.                                                    *)
(***************************************************************************)
MaxDevices == 2
MaxCommands == 2
MaxNow == 2
MaxRuns == 2
MaxCommandLen == 82
MaxAnswerLen == 2

DeviceAddrs == {"10.0.0.1", "10.0.0.2"}
CommandPool == {"show version", "show clock"}

\* The lists of at most n lines over S. prepostchecks never compares two lines,
\* so of the lists that differ only by a renaming of the lines, the one that
\* starts with `first` stands for all.
ListsUpTo(S, n, first) ==
    {l \in UNION {[1..m -> S] : m \in 0..n} : l = <<>> \/ l[1] = first}
DeviceLists == ListsUpTo(DeviceAddrs, MaxDevices, "10.0.0.1")
CommandLists == ListsUpTo(CommandPool, MaxCommands, "show version")

Pre == <<"P", "r", "e">>
Post == <<"P", "o", "s", "t">>
NoPath == [dir |-> <<>>, host |-> <<>>, mode |-> <<>>, kind |-> "", ts |-> 0,
           ext |-> ""]

\* The wall clock counts the half minutes since the program was started.
Instants == 0..MaxNow

(***************************************************************************)
(* Pure functions of prepostchecks.                                        *)
(***************************************************************************)

\* str * n : n copies of a string, the empty string when n is not positive
\* (built from two halves)
RECURSIVE Times(_, _)
Times(s, n) ==
    IF n <= 0 THEN ""
    ELSE LET half == Times(s, n \div 2)
         IN  IF n % 2 = 0 THEN half \o half ELSE (half \o half) \o s

\* str.replace(old, "") on a sequence of characters
RECURSIVE Remove(_, _)
Remove(s, old) ==
    IF s = <<>> THEN <<>>
    ELSE IF Head(s) = old THEN Remove(Tail(s), old)
         ELSE <<Head(s)>> \o Remove(Tail(s), old)

\* find_prompt().replace("#", "")
HostnameOf(p) == Remove(p, "#")

\* datetime.now().strftime('%m%d%Y-%H%M'): the instant cut to whole minutes
Strftime(t) == t \div 2

\* (a slip: the directory does not follow the run mode)
LogDirAlwaysPre(mode) == <<"L", "o", "g", "s", "/">> \o Pre

\* f"Logs/{prepost}"
LogDir(mode) == <<"L", "o", "g", "s", "/">> \o mode

\* (a slip: the hostname is left out of the log file name)
ShowFullpathHostLeftOut(host, mode, t) ==
    [dir |-> LogDir(mode), host |-> <<>>, mode |-> mode, kind |-> "CheckLogs",
     ts |-> Strftime(t), ext |-> "txt"]

\* os.path.join(os.getcwd(), f"Logs/{prepost}",
\*              f"{hostname}_{prepost}CheckLogs-{ts}.txt")
ShowFullpath(host, mode, t) ==
    [dir |-> LogDir(mode), host |-> host, mode |-> mode, kind |-> "CheckLogs",
     ts |-> Strftime(t), ext |-> "txt"]

\* os.path.join(os.getcwd(), f"Logs/{prepost}",
\*              f"{hostname}_BackupConfig-{ts}.cfg")
BackupFullpath(host, mode, t) ==
    [dir |-> LogDir(mode), host |-> host, mode |-> <<>>,
     kind |-> "BackupConfig", ts |-> Strftime(t), ext |-> "cfg"]

\* (a slip: the padding is one asterisk short)
DelimiterShort(command) ==
    "\n" \o Times("*", 20) \o command \o Times("*", 79 - Len(command))
         \o "\n\n"

\* "\n" + ("*" * 20) + str(command) + ("*" * (80 - len(command))) + "\n\n"
Delimiter(command) ==
    "\n" \o Times("*", 20) \o command \o Times("*", 80 - Len(command))
         \o "\n\n"

\* (a slip: the newest section is put in front of the buffer)
AppendSectionInFront(buf, command, reply) ==
    (Delimiter(command) \o reply) \o buf

\* the two += of the loop body
AppendSection(buf, command, reply) == (buf \o Delimiter(command)) \o reply

\* (a slip: mode "a", an existing file keeps its content)
OpenA(files, path) ==
    [p \in DOMAIN files \cup {path} |->
        IF p \in DOMAIN files THEN files[p] ELSE ""]

\* open(path, "w"): the file is created, or cut to length zero
OpenW(files, path) ==
    [p \in DOMAIN files \cup {path} |-> IF p = path THEN "" ELSE files[p]]

\* file.write(text) / file.writelines(text) on an open file
WriteText(files, path, text) == [files EXCEPT ![path] = files[path] \o text]

\* net_connect.find_prompt(): every device reports its own prompt, the first
\* in privileged mode, the second in user mode
PromptOf(device) ==
    IF device = "10.0.0.1" THEN <<"R", "1", "#">> ELSE <<"R", "2", ">">>

\* net_connect.send_command(command): the raw reply of the device; the program
\* never looks into it, so every reply names who gave it, to what, and when
ReplyOf(device, command, t) ==
    command \o "@" \o device \o "@" \o ToString(t)

\* (a slip: a skipped device ends the batch)
AfterSkipAborts == "done"

\* the target of the two except clauses: the next iteration of the for loop
AfterSkip == "loop"

\* the for loop takes the next element
NextIndex(n) == n + 1

(***************************************************************************)
(* The main block after get_inputs and read_file.                          *)
(***************************************************************************)
AllDirs == {LogDir(Pre), LogDir(Post)}

NoAnswer == [prompt |-> "", text |-> <<>>, invalid |-> FALSE]

\* The state in which the program is at position `at`, get_inputs and
\* read_file having returned: D, C the lists read_file can give, Dirs the
\* sets of output directories that can exist.
Start(D, C, Dirs, at) ==
    /\ devices \in D
    /\ commands \in C
    /\ prepost \in {Pre, Post}
    /\ port = <<"2", "2">>
    /\ entered = NoAnswer
    /\ dirs \in Dirs
    /\ fs = [p \in {} |-> ""]
    /\ now = 0
    /\ pc = at
    /\ i = 0
    /\ k = 0
    /\ net_connect = 0
    /\ sessions = {}
    /\ hostname = <<>>
    /\ show_fullpath = NoPath
    /\ backup_fullpath = NoPath
    /\ output = ""
    /\ attempts = <<>>
    /\ prompt = <<>>
    /\ replies = <<>>
    /\ writes = <<>>
    /\ status = <<>>
    /\ run = 1

\* the main block starts, whatever directories exist
InitMain == Start(DeviceLists, CommandLists, SUBSET AllDirs, "boot")

\* prepostchecks is entered with the output directories in place
Init == Start(DeviceLists, CommandLists, {AllDirs}, "loop")

inputVars == <<devices, commands, prepost, port, entered>>
localVars == <<hostname, show_fullpath, backup_fullpath, output>>

\* if not exists(Logs/Pre): makedirs(Logs/Pre)
\* elif not exists(Logs/Post): makedirs(Logs/Post)
Bootstrap ==
    /\ pc = "boot"
    /\ dirs' = IF LogDir(Pre) \notin dirs THEN dirs \cup {LogDir(Pre)}
               ELSE IF LogDir(Post) \notin dirs THEN dirs \cup {LogDir(Post)}
               ELSE dirs
    /\ pc' = "loop"
    /\ UNCHANGED <<inputVars, localVars, fs, now, i, k, net_connect, sessions,
                   attempts, prompt, replies, writes, status, run>>

\* print(f"Connecting to {ios_xe['host']}..")
Connecting(device) == [msg |-> "Connecting to", dev |-> device]
\* print(f"Logged in to {hostname}.")
LoggedIn(host) == [msg |-> "Logged in to", host |-> host]
\* print(f"Completed! Disconnecting now from {hostname}.")
Completed(host) == [msg |-> "Completed! Disconnecting now from", host |-> host]
\* print("Authentication failed.\nSkipping..") / print("Device unreachable.\nSkipping..")
Skipping(e) == [msg |-> IF e = "auth" THEN "Authentication failed. Skipping"
                        ELSE "Device unreachable. Skipping"]

\* the two exceptions prepostchecks catches
Caught == {"auth", "timeout"}

\* net_connect = ConnectHandler(**ios_xe) returns a session. The program has
\* no disconnect() and no with block: the session the name referred to before
\* is not closed by it.
ConnectOk ==
    /\ pc = "loop"
    /\ i < Len(devices)
    /\ i' = NextIndex(i)
    /\ attempts' = Append(attempts, [host |-> devices[i'], result |-> "ok"])
    /\ status' = Append(status, Connecting(devices[i']))
    /\ sessions' = sessions \cup {i'}
    /\ net_connect' = i'
    /\ pc' = "prompt"
    /\ UNCHANGED <<inputVars, localVars, dirs, fs, now, k, prompt, replies,
                   writes, run>>

\* (a slip: the skipped device still gets an empty log file)
ConnectSkippedLeavesLog ==
    /\ pc = "loop"
    /\ i < Len(devices)
    /\ i' = NextIndex(i)
    /\ \E e \in Caught :
           /\ attempts' = Append(attempts, [host |-> devices[i'], result |-> e])
           /\ status' = status \o <<Connecting(devices[i']), Skipping(e)>>
    /\ fs' = OpenW(fs, ShowFullpath(<<>>, prepost, now))
    /\ writes' = Append(writes, [run |-> run, dev |-> i', at |-> now,
                                 path |-> ShowFullpath(<<>>, prepost, now)])
    /\ pc' = AfterSkip
    /\ UNCHANGED <<inputVars, localVars, dirs, now, k, net_connect, sessions,
                   prompt, replies, run>>

\* ConnectHandler raises NetMikoAuthenticationException or
\* NetMikoTimeoutException: the except clause prints and the loop goes on
ConnectSkipped ==
    /\ pc = "loop"
    /\ i < Len(devices)
    /\ i' = NextIndex(i)
    /\ \E e \in Caught :
           /\ attempts' = Append(attempts, [host |-> devices[i'], result |-> e])
           /\ status' = status \o <<Connecting(devices[i']), Skipping(e)>>
    /\ pc' = AfterSkip
    /\ UNCHANGED <<inputVars, localVars, dirs, fs, now, k, net_connect,
                   sessions, prompt, replies, writes, run>>

\* lines 96-109: find_prompt, the log file name, the empty buffer
FindPrompt ==
    /\ pc = "prompt"
    /\ prompt' = PromptOf(devices[i])
    /\ hostname' = HostnameOf(prompt')
    /\ \E t \in Instants :
           /\ t >= now
           /\ now' = t
           /\ show_fullpath' = ShowFullpath(hostname', prepost, t)
    /\ status' = Append(status, LoggedIn(hostname'))
    /\ output' = ""
    /\ k' = 0
    /\ replies' = <<>>
    /\ pc' = "cmd"
    /\ UNCHANGED <<inputVars, backup_fullpath, dirs, fs, i, net_connect,
                   sessions, attempts, writes, run>>

\* (a slip: the with block is indented into the loop, the log file is
\* rewritten after every command)
SendCommandOkWritesLog ==
    /\ pc = "cmd"
    /\ k < Len(commands)
    /\ LET r == ReplyOf(devices[i], commands[k + 1], now)
       IN  /\ output' = AppendSection(output, commands[k + 1], r)
           /\ replies' = Append(replies, r)
    /\ fs' = WriteText(OpenW(fs, show_fullpath), show_fullpath, output')
    /\ writes' = Append(writes, [run |-> run, dev |-> i, path |-> show_fullpath,
                                 at |-> now])
    /\ k' = k + 1
    /\ UNCHANGED <<inputVars, hostname, show_fullpath, backup_fullpath, dirs,
                   now, pc, i, net_connect, sessions, attempts, prompt, status,
                   run>>

\* one iteration of "for command in commands"
SendCommandOk ==
    /\ pc = "cmd"
    /\ k < Len(commands)
    /\ LET r == ReplyOf(devices[i], commands[k + 1], now)
       IN  /\ output' = AppendSection(output, commands[k + 1], r)
           /\ replies' = Append(replies, r)
    /\ k' = k + 1
    /\ UNCHANGED <<inputVars, hostname, show_fullpath, backup_fullpath, dirs,
                   fs, now, pc, i, net_connect, sessions, attempts, prompt,
                   writes, status, run>>

\* send_command raises NetMikoTimeoutException (the device stopped answering)
SendCommandSkipped ==
    /\ pc = "cmd"
    /\ k < Len(commands)
    /\ status' = Append(status, Skipping("timeout"))
    /\ pc' = AfterSkip
    /\ UNCHANGED <<inputVars, localVars, dirs, fs, now, i, k, net_connect,
                   sessions, attempts, prompt, replies, writes, run>>

\* send_command raises any other exception: it leaves prepostchecks
SendCommandRaises ==
    /\ pc = "cmd"
    /\ k < Len(commands)
    /\ pc' = "crashed"
    /\ UNCHANGED <<inputVars, localVars, dirs, fs, now, i, k, net_connect,
                   sessions, attempts, prompt, replies, writes, status, run>>

\* with open(show_fullpath, "w") as logs: logs.writelines(output)
WriteLog ==
    /\ pc = "cmd"
    /\ k = Len(commands)
    /\ show_fullpath.dir \in dirs
    /\ fs' = WriteText(OpenW(fs, show_fullpath), show_fullpath, output)
    /\ writes' = Append(writes, [run |-> run, dev |-> i, path |-> show_fullpath,
                                 at |-> now])
    /\ pc' = "backup"
    /\ UNCHANGED <<inputVars, localVars, dirs, now, i, k, net_connect,
                   sessions, attempts, prompt, replies, status, run>>

\* open(show_fullpath, "w") raises FileNotFoundError: the directory is missing
WriteLogRaises ==
    /\ pc = "cmd"
    /\ k = Len(commands)
    /\ show_fullpath.dir \notin dirs
    /\ pc' = "crashed"
    /\ UNCHANGED <<inputVars, localVars, dirs, fs, now, i, k, net_connect,
                   sessions, attempts, prompt, replies, writes, status, run>>

\* lines 123-128: the backup file name, then open(backup_fullpath, "w")
OpenBackup ==
    /\ pc = "backup"
    /\ \E t \in Instants :
           /\ t >= now
           /\ now' = t
           /\ backup_fullpath' = BackupFullpath(hostname, prepost, t)
    /\ backup_fullpath'.dir \in dirs
    /\ fs' = OpenW(fs, backup_fullpath')
    /\ writes' = Append(writes, [run |-> run, dev |-> i,
                                 path |-> backup_fullpath', at |-> now'])
    /\ pc' = "bkcmd"
    /\ UNCHANGED <<inputVars, hostname, show_fullpath, output, dirs, i, k,
                   net_connect, sessions, attempts, prompt, replies, status,
                   run>>

\* backup.write(net_connect.send_command("show running")), then "Completed!"
BackupCommandOk ==
    /\ pc = "bkcmd"
    /\ LET r == ReplyOf(devices[i], "show running", now)
       IN  /\ fs' = WriteText(fs, backup_fullpath, r)
           /\ replies' = Append(replies, r)
    /\ status' = Append(status, Completed(hostname))
    /\ pc' = "loop"
    /\ UNCHANGED <<inputVars, localVars, dirs, now, i, k, net_connect,
                   sessions, attempts, prompt, writes, run>>

\* (a slip: the "Completed!" line is printed after the except clause too)
BackupCommandSkippedThenCompleted ==
    /\ pc = "bkcmd"
    /\ status' = status \o <<Skipping("timeout"), Completed(hostname)>>
    /\ pc' = AfterSkip
    /\ UNCHANGED <<inputVars, localVars, dirs, fs, now, i, k, net_connect,
                   sessions, attempts, prompt, replies, writes, run>>

\* send_command("show running") raises NetMikoTimeoutException; the with
\* statement closes the backup file, which stays empty
BackupCommandSkipped ==
    /\ pc = "bkcmd"
    /\ status' = Append(status, Skipping("timeout"))
    /\ pc' = AfterSkip
    /\ UNCHANGED <<inputVars, localVars, dirs, fs, now, i, k, net_connect,
                   sessions, attempts, prompt, replies, writes, run>>

\* send_command("show running") raises any other exception
BackupCommandRaises ==
    /\ pc = "bkcmd"
    /\ pc' = "crashed"
    /\ UNCHANGED <<inputVars, localVars, dirs, fs, now, i, k, net_connect,
                   sessions, attempts, prompt, replies, writes, status, run>>

\* the for loop is exhausted: prepostchecks returns and its locals are dropped
Return ==
    /\ pc = "loop"
    /\ i = Len(devices)
    /\ net_connect' = 0
    /\ pc' = "done"
    /\ UNCHANGED <<inputVars, localVars, dirs, fs, now, i, k, sessions,
                   attempts, prompt, replies, writes, status, run>>

Next ==
    \/ ConnectOk
    \/ ConnectSkipped
    \/ FindPrompt
    \/ SendCommandOk
    \/ SendCommandSkipped
    \/ SendCommandRaises
    \/ WriteLog
    \/ OpenBackup
    \/ BackupCommandOk
    \/ BackupCommandSkipped
    \/ BackupCommandRaises
    \/ Return

Spec == Init /\ [][Next]_vars

(***************************************************************************)
(* One device and one command of any length up to MaxCommandLen.           *)
(***************************************************************************)
LongCommandLists == {<<Times("c", n)>> : n \in 0..MaxCommandLen}

InitDelimiter == Start({<<"10.0.0.1">>}, LongCommandLists, {AllDirs}, "loop")

SpecDelimiter == InitDelimiter /\ [][Next]_vars

(***************************************************************************)
(* The operator starts the program again, up to MaxRuns times, on the same *)
(* devices.txt and commands.txt; the files on disk and the clock stay.     *)
(***************************************************************************)
Rerun ==
    /\ pc \in {"done", "crashed"}
    /\ run < MaxRuns
    /\ run' = run + 1
    /\ pc' = "loop"
    /\ i' = 0
    /\ k' = 0
    /\ net_connect' = 0
    /\ sessions' = {}
    /\ hostname' = <<>>
    /\ show_fullpath' = NoPath
    /\ backup_fullpath' = NoPath
    /\ output' = ""
    /\ attempts' = <<>>
    /\ prompt' = <<>>
    /\ replies' = <<>>
    /\ status' = <<>>
    /\ UNCHANGED <<inputVars, dirs, fs, now, writes>>

InitRerun == Start({<<"10.0.0.1">>}, CommandLists, {AllDirs}, "loop")

NextRerun == Next \/ Rerun

SpecRerun == InitRerun /\ [][NextRerun]_vars

(***************************************************************************)
(* The main block from the directory bootstrap on, whatever output         *)
(* directories exist when the program is started.                          *)
(***************************************************************************)
NextMain ==
    \/ Bootstrap
    \/ WriteLogRaises
    \/ Next

SpecMain == InitMain /\ [][NextMain]_vars

(***************************************************************************)
(* get_inputs: the port prompt and the run-mode prompt.                    *)
(***************************************************************************)
Digits == {"0", "1", "2", "3", "4", "5", "6", "7", "8", "9"}
LowerLetters == <<"p", "r", "e", "o", "s", "t">>
UpperLetters == <<"P", "R", "E", "O", "S", "T">>
Letters == {LowerLetters[n] : n \in DOMAIN LowerLetters}
               \cup {UpperLetters[n] : n \in DOMAIN UpperLetters}

\* what the operator may type at the port prompt
PortChars == {"2", "-", " ", "x"}
PortAnswers == UNION {[1..m -> PortChars] : m \in 0..MaxAnswerLen}

\* what the operator may type at the run-mode prompt: the words below in
\* every mix of upper and lower case
ModeWords == {<<>>, <<"p", "r", "e">>, <<"p", "o", "s", "t">>,
              <<"p", "r", "o">>, <<"p", "o", "s">>, <<" ", "p", "r", "e">>,
              <<"p", "r", "e", " ">>, <<"p", "o", "s", "t", "s">>}

\* str.upper() and str.lower() of one character
UpperChar(c) ==
    IF \E n \in DOMAIN LowerLetters : LowerLetters[n] = c
    THEN UpperLetters[CHOOSE n \in DOMAIN LowerLetters : LowerLetters[n] = c]
    ELSE c
LowerChar(c) ==
    IF \E n \in DOMAIN UpperLetters : UpperLetters[n] = c
    THEN LowerLetters[CHOOSE n \in DOMAIN UpperLetters : UpperLetters[n] = c]
    ELSE c

ModeAnswers ==
    UNION {{a \in [1..Len(w) -> Letters \cup {" "}] :
               \A n \in 1..Len(w) : LowerChar(a[n]) = w[n]} : w \in ModeWords}

\* str.lower()
Lower(s) == [n \in 1..Len(s) |-> LowerChar(s[n])]

\* (a slip: .title() left out)
TitleLeftOut(s) == s

\* str.title(): a letter that follows a letter is made lower case, any other
\* letter upper case
Title(s) ==
    [n \in 1..Len(s) |->
        IF n > 1 /\ s[n - 1] \in Letters THEN LowerChar(s[n])
        ELSE UpperChar(s[n])]

\* str.strip() of blanks
RECURSIVE LStrip(_)
LStrip(s) == IF s # <<>> /\ Head(s) = " " THEN LStrip(Tail(s)) ELSE s
RECURSIVE RStrip(_)
RStrip(s) ==
    IF s # <<>> /\ s[Len(s)] = " " THEN RStrip(SubSeq(s, 1, Len(s) - 1)) ELSE s

\* int(port) does not raise ValueError: blanks around, an optional sign, then
\* digits, single underscores between digits allowed
IsIntLiteral(s) ==
    LET t == RStrip(LStrip(s))
        u == IF t # <<>> /\ t[1] \in {"+", "-"} THEN Tail(t) ELSE t
    IN  /\ u # <<>>
        /\ \A n \in 1..Len(u) :
               \/ u[n] \in Digits
               \/ /\ u[n] = "_"
                  /\ 1 < n
                  /\ n < Len(u)
                  /\ u[n - 1] \in Digits
                  /\ u[n + 1] \in Digits

InitInputs ==
    /\ devices = <<>>
    /\ commands = <<>>
    /\ prepost = <<>>
    /\ port = <<>>
    /\ entered = NoAnswer
    /\ dirs = AllDirs
    /\ fs = [p \in {} |-> ""]
    /\ now = 0
    /\ pc = "ask_port"
    /\ i = 0
    /\ k = 0
    /\ net_connect = 0
    /\ sessions = {}
    /\ hostname = <<>>
    /\ show_fullpath = NoPath
    /\ backup_fullpath = NoPath
    /\ output = ""
    /\ attempts = <<>>
    /\ prompt = <<>>
    /\ replies = <<>>
    /\ writes = <<>>
    /\ status = <<>>
    /\ run = 1

mainVars == <<devices, commands, dirs, fs, now, i, k, net_connect, sessions,
              hostname, show_fullpath, backup_fullpath, output, attempts,
              prompt, replies, writes, status, run>>

\* port = input(...); int(port) passes; the loop is left
PortAccepted ==
    /\ pc = "ask_port"
    /\ \E a \in PortAnswers :
           /\ IsIntLiteral(a)
           /\ port' = IF a = <<>> THEN <<"2", "2">> ELSE a
           /\ entered' = [prompt |-> "port", text |-> a, invalid |-> FALSE]
    /\ pc' = "ask_prepost"
    /\ UNCHANGED <<mainVars, prepost>>

\* port = input(...); int(port) raises ValueError; "Invalid input! ..." is
\* printed and the prompt is shown again
PortRejected ==
    /\ pc = "ask_port"
    /\ \E a \in PortAnswers :
           /\ ~IsIntLiteral(a)
           /\ port' = a
           /\ entered' = [prompt |-> "port", text |-> a, invalid |-> TRUE]
    /\ UNCHANGED <<mainVars, prepost, pc>>

\* prepost = input(...).title(); its lower case is "pre" or "post"
ModeAccepted ==
    /\ pc = "ask_prepost"
    /\ \E a \in ModeAnswers :
           /\ Lower(Title(a)) \in {Lower(Pre), Lower(Post)}
           /\ prepost' = Title(a)
           /\ entered' = [prompt |-> "prepost", text |-> a, invalid |-> FALSE]
    /\ pc' = "inputs_done"
    /\ UNCHANGED <<mainVars, port>>

\* prepost = input(...).title(); anything else: "Invalid input!" is printed
\* and the prompt is shown again
ModeRejected ==
    /\ pc = "ask_prepost"
    /\ \E a \in ModeAnswers :
           /\ Lower(Title(a)) \notin {Lower(Pre), Lower(Post)}
           /\ prepost' = Title(a)
           /\ entered' = [prompt |-> "prepost", text |-> a, invalid |-> TRUE]
    /\ UNCHANGED <<mainVars, port, pc>>

NextInputs ==
    \/ PortAccepted
    \/ PortRejected
    \/ ModeAccepted
    \/ ModeRejected

SpecInputs == InitInputs /\ [][NextInputs]_vars

(***************************************************************************)
(* The batch driver.                                                       *)
(***************************************************************************)
AttemptedHosts == [j \in 1..Len(attempts) |-> attempts[j].host]
Failed(j) == attempts[j].result \in Caught
WritesOf(j) == {n \in DOMAIN writes : writes[n].run = run /\ writes[n].dev = j}

\* C1 as stated: a run ends only after every element of D has been attempted
\* once, in input order.
C1_RunEndsAfterLastDevice ==
    pc \in {"done", "crashed"} => AttemptedHosts = devices

\* C1 amended: the attempts made so far are the first elements of D, one each
\* and in input order; a run that returns has attempted all of D.
C1_AttemptsFollowInputOrder ==
    /\ Len(attempts) <= Len(devices)
    /\ AttemptedHosts = SubSeq(devices, 1, Len(attempts))
    /\ pc = "done" => AttemptedHosts = devices

C1_Witness ==
    /\ pc = "done"
    /\ Len(devices) = 2
    /\ devices[1] # devices[2]
    /\ Failed(1)

RECURSIVE Sections(_, _)
Sections(cs, rs) ==
    IF cs = <<>> THEN ""
    ELSE "\n" \o Times("*", 20) \o Head(cs) \o Times("*", 80 - Len(Head(cs)))
              \o "\n\n" \o Head(rs) \o Sections(Tail(cs), Tail(rs))

\* C3: once the log file of a device is written it holds exactly one section
\* per command, in input order, each the delimiter line with the command text
\* followed by the reply the device gave to that command.
C3_LogHoldsSectionsInOrder ==
    pc \in {"backup", "bkcmd"} =>
        /\ Len(replies) = Len(commands)
        /\ fs[show_fullpath] = Sections(commands, replies)

C3_Witness ==
    /\ pc = "bkcmd"
    /\ Len(commands) = 2
    /\ commands[1] # commands[2]

\* two opens of one run for the same device and the same kind of file
SameArtifact(v, w) ==
    v.run = w.run /\ v.dev = w.dev /\ v.path.kind = w.path.kind

\* C4: per device of the list at most one log file and at most one backup
\* file is opened, every file lies under Logs/<RunMode>, and a device whose
\* connection attempt failed has none.
C4_AtMostOneArtifactEach ==
    /\ \A m, n \in DOMAIN writes :
           SameArtifact(writes[m], writes[n]) => m = n
    /\ \A n \in DOMAIN writes :
           /\ writes[n].path.kind \in {"CheckLogs", "BackupConfig"}
           /\ writes[n].dev \in 1..Len(attempts)
           /\ writes[n].run = run => ~Failed(writes[n].dev)
    /\ \A p \in DOMAIN fs : p.dir = <<"L", "o", "g", "s", "/">> \o prepost

C4_Witness ==
    /\ pc = "done"
    /\ Len(devices) = 2
    /\ Len(writes) = 4
    /\ prepost = Post

\* C5: a session is closed before the processing of its device ends: none is
\* open at the head of the loop or after the return, and never two at once.
C5_SessionClosedBeforeNextDevice ==
    /\ Cardinality(sessions) <= 1
    /\ pc \in {"loop", "done"} => sessions = {}

\* C9: the hostname in both file names is the prompt without its last
\* character.
C9_HostnameIsPromptWithoutTerminator ==
    LET stripped == SubSeq(prompt, 1, Len(prompt) - 1)
    IN  /\ pc \in {"cmd", "backup", "bkcmd"} =>
               hostname = stripped /\ show_fullpath.host = stripped
        /\ pc = "bkcmd" => backup_fullpath.host = stripped

(***************************************************************************)
(* Running the batch again.                                                *)
(***************************************************************************)
\* the clock minute an instant lies in
Minute(t) == t \div 2

CompletedThisRun == status # <<>> /\ status[Len(status)] = Completed(hostname)

\* C6: when a run has completed the device after an earlier run wrote files
\* for it, and every file name of all the runs was derived within one clock
\* minute, then the disk holds exactly the one log file and the one backup
\* file, each opened once per run under one name and holding what this run
\* wrote.
C6_SecondRunOverwrites ==
    ( /\ run > 1
      /\ pc = "done"
      /\ CompletedThisRun
      /\ \E n \in DOMAIN writes : writes[n].run < run
      /\ \A n \in DOMAIN writes : Minute(writes[n].at) = Minute(now) )
    =>
    ( /\ DOMAIN fs = {show_fullpath, backup_fullpath}
      /\ show_fullpath # backup_fullpath
      /\ \A n \in DOMAIN writes :
             writes[n].path = IF writes[n].path.kind = "CheckLogs"
                              THEN show_fullpath ELSE backup_fullpath
      /\ fs[show_fullpath] = output
      /\ fs[backup_fullpath] = replies[Len(replies)] )

C6_Witness ==
    /\ run = 2
    /\ pc = "done"
    /\ CompletedThisRun
    /\ Len(writes) = 4
    /\ \A n \in DOMAIN writes : Minute(writes[n].at) = Minute(now)
    /\ writes[1].at # writes[3].at
    /\ Len(commands) = 2
    /\ fs[show_fullpath] = output

(***************************************************************************)
(* The delimiter line.                                                     *)
(***************************************************************************)
\* the width of the delimiter line that opens the buffer after one command:
\* the buffer without the reply and without the three line ends
FirstLineWidth == Len(output) - Len(replies[1]) - 3

\* C10 as stated: the delimiter line is equally wide for every command,
\* 20 asterisks and the command padded to 80.
C10_DelimiterWidthFixed ==
    (pc = "cmd" /\ k = 1) => FirstLineWidth = 20 + 80

\* C10 amended: for a command of at most 80 characters the line is 100 wide,
\* 20 asterisks, the command, asterisks up to the width; for a longer command
\* nothing is padded and the line is 20 asterisks and the command.
C10_DelimiterWidthUpTo80 ==
    (pc = "cmd" /\ k = 1) =>
        LET c == commands[1]
        IN  /\ Len(c) <= 80 => FirstLineWidth = 100
            /\ Len(c) > 80 => FirstLineWidth = 20 + Len(c)
            /\ output = "\n" \o Times("*", 20) \o c
                             \o Times("*", FirstLineWidth - 20 - Len(c))
                             \o "\n\n" \o replies[1]

C10_Witness ==
    /\ pc = "cmd"
    /\ k = 1
    /\ Len(commands[1]) = 81

(***************************************************************************)
(* The prompts of get_inputs.                                              *)
(***************************************************************************)
\* C7: a blank answer to the port prompt ends the port loop with port "22";
\* it draws no "Invalid input" and the prompt is not shown again.
C7_BlankPortGivesDefault ==
    (entered.prompt = "port" /\ entered.text = <<>>) =>
        /\ pc # "ask_port"
        /\ port = <<"2", "2">>
        /\ ~entered.invalid

\* the answer is the word in some mix of upper and lower case
IsCaseVariant(a, w) ==
    /\ Len(a) = Len(w)
    /\ \A n \in 1..Len(w) : a[n] = w[n] \/ a[n] = UpperChar(w[n])

\* C8: every case variant of "pre" is accepted and gives "Pre", every case
\* variant of "post" is accepted and gives "Post", so the output directory
\* is Logs/Pre resp. Logs/Post; any other answer is rejected and the prompt
\* is shown again.
C8_RunModeAnyCase ==
    entered.prompt = "prepost" =>
        LET a == entered.text
            isPre == IsCaseVariant(a, <<"p", "r", "e">>)
            isPost == IsCaseVariant(a, <<"p", "o", "s", "t">>)
        IN  /\ isPre =>
                /\ pc = "inputs_done"
                /\ prepost = <<"P", "r", "e">>
                /\ LogDir(prepost) = <<"L", "o", "g", "s", "/", "P", "r", "e">>
            /\ isPost =>
                /\ pc = "inputs_done"
                /\ prepost = <<"P", "o", "s", "t">>
                /\ LogDir(prepost)
                       = <<"L", "o", "g", "s", "/", "P", "o", "s", "t">>
            /\ ~(isPre \/ isPost) => pc = "ask_prepost" /\ entered.invalid

C8_Witness ==
    /\ entered.prompt = "prepost"
    /\ entered.text = <<"p", "O", "s", "T">>
    /\ pc = "inputs_done"
    /\ prepost = Post

(***************************************************************************)
(* The two file names of a device, and what a skipped device leaves.       *)
(***************************************************************************)
\* C11: for a device that was processed, the name of the log file and the
\* name of the backup file carry the same timestamp, however the clock
\* moves while the commands run.
C11_BothNamesCarryOneTimestamp ==
    pc = "bkcmd" => backup_fullpath.ts = show_fullpath.ts

\* the last line on the status channel reports a skipped device
SkippedLast ==
    /\ status # <<>>
    /\ status[Len(status)] \in {Skipping(e) : e \in Caught}

\* C12: when the status channel reports the device as skipped, no file has
\* been opened for that device in this run, at whichever step the failure
\* was raised.
C12_SkippedMeansNoArtifact ==
    (pc = "loop" /\ SkippedLast) =>
        \A n \in DOMAIN writes : ~(writes[n].run = run /\ writes[n].dev = i)

(***************************************************************************)
(* Failures that prepostchecks does not catch, and the directories.        *)
(***************************************************************************)
\* the status channel without the "Logged in" lines: per device the
\* "Connecting to" line and, once its processing has ended, the outcome
Progress == SelectSeq(status, LAMBDA m : m.msg # "Logged in to")
OutcomeOf(j) == Progress[2 * j]

\* what the device of an open() sent in reply to the commands
RepliesAt(w) ==
    [n \in 1..Len(commands) |-> ReplyOf(devices[w.dev], commands[n], w.at)]

\* what the processing of a device that has ended put into the file it opened:
\* the sections of all commands into the log, the running configuration into
\* the backup, nothing into the backup when "show running" timed out
Written(w) ==
    IF w.path.kind = "CheckLogs" THEN Sections(commands, RepliesAt(w))
    ELSE IF OutcomeOf(w.dev).msg = "Completed! Disconnecting now from"
         THEN ReplyOf(devices[w.dev], "show running", w.at)
         ELSE ""

EarlierWrites == {n \in DOMAIN writes : writes[n].dev < i}

\* C13 as stated: after a failure that is not caught no further device has
\* been attempted, and every file written for an earlier device holds what
\* was written to it.
C13_EarlierArtifactsUnchanged ==
    pc = "crashed" =>
        /\ Len(attempts) = i
        /\ \A n \in EarlierWrites : fs[writes[n].path] = Written(writes[n])

\* the device of open() m reported the hostname of the device of open() n and
\* derived the name of the same kind of file within the same clock minute
SameName(m, n) ==
    /\ writes[m].path.kind = writes[n].path.kind
    /\ HostnameOf(PromptOf(devices[writes[m].dev]))
           = HostnameOf(PromptOf(devices[writes[n].dev]))
    /\ Strftime(writes[m].at) = Strftime(writes[n].at)

\* C13 amended: a failure that is not caught ends the run: nothing happens
\* after it, no further device is attempted, no outcome is reported for the
\* device, and every file written for an earlier device holds what was
\* written to it, unless a later device up to the failing one reported the
\* same hostname within the same clock minute and opened the file again.
C13_UncaughtFailureEndsRun ==
    /\ [](pc = "crashed" =>
            /\ Len(attempts) = i
            /\ Len(Progress) = 2 * i - 1
            /\ \A n \in EarlierWrites :
                   (\A m \in DOMAIN writes : m > n => ~SameName(m, n))
                       => /\ writes[n].path \in DOMAIN fs
                          /\ fs[writes[n].path] = Written(writes[n]))
    /\ [][pc # "crashed"]_vars

C13_Witness ==
    /\ pc = "crashed"
    /\ i = 2
    /\ devices[1] # devices[2]
    /\ OutcomeOf(1) = Completed(<<"R", "1">>)
    /\ Len(writes) = 4
    /\ commands # <<>>
    /\ fs[writes[2].path] = ReplyOf("10.0.0.1", "show running", writes[2].at)

\* C15: whatever directories exist when the program starts and whichever run
\* mode was chosen, the directory Logs/<RunMode> exists when prepostchecks is
\* about to open its first file.
C15_RunModeDirExistsAtFirstWrite ==
    (pc = "cmd" /\ k = Len(commands)) => LogDir(prepost) \in dirs

(***************************************************************************)
(* When the log file is written.                                           *)
(***************************************************************************)
\* no file has been opened in this run for the device being processed
NothingOpenedYet ==
    \A n \in DOMAIN writes : ~(writes[n].run = run /\ writes[n].dev = i)

\* the processing of the device has ended, or was broken off, before the
\* last command of the list had returned
EndedDuringCommands ==
    /\ pc \in {"loop", "done", "crashed"}
    /\ i > 0
    /\ attempts[i].result = "ok"
    /\ k < Len(commands)

\* a log file on disk is left as it is, or it is the file WriteLog writes
LogFilesKept ==
    \A p \in DOMAIN fs :
        p.kind = "CheckLogs" =>
            \/ p \in DOMAIN fs' /\ fs'[p] = fs[p]
            \/ pc = "cmd" /\ pc' = "backup" /\ p = show_fullpath

\* C14: the log file of a device is written in one step, after every command
\* of the list has returned and before the backup command is executed: while
\* the commands run no file is open for the device, when the backup command
\* is about to run the log file is the newest but one file opened, every log
\* file holds the sections of all commands as its last writer got them, a
\* device whose processing ended during a command has no file, and no other
\* step than the write of the log changes a log file.
C14_LogWrittenAfterAllCommands ==
    /\ [](/\ pc \in {"prompt", "cmd"} => NothingOpenedYet
          /\ pc = "bkcmd" =>
                 /\ k = Len(commands)
                 /\ Len(writes) >= 2
                 /\ writes[Len(writes) - 1].path = show_fullpath
                 /\ writes[Len(writes) - 1].dev = i
                 /\ writes[Len(writes)].path = backup_fullpath
          /\ \A n \in DOMAIN writes :
                 ( /\ writes[n].path.kind = "CheckLogs"
                   /\ \A m \in DOMAIN writes :
                          m > n => writes[m].path # writes[n].path )
                 => fs[writes[n].path]
                        = Sections(commands, RepliesAt(writes[n]))
          /\ EndedDuringCommands => NothingOpenedYet)
    /\ [][LogFilesKept]_vars

C14_Witness ==
    /\ EndedDuringCommands
    /\ pc = "loop"
    /\ i = 2
    /\ k = 1
    /\ Len(commands) = 2
    /\ Len(writes) = 2
    /\ fs[writes[1].path] = Sections(commands, RepliesAt(writes[1]))

(***************************************************************************)
(* The status channel.                                                     *)
(***************************************************************************)
\* the lines that end the processing of device j
OutcomeLines(j) ==
    {Completed(HostnameOf(PromptOf(devices[j])))}
        \cup {Skipping(e) : e \in Caught}

\* C16: on the status channel every device whose processing has ended
\* without an uncaught failure has its "Connecting to" line and after it
\* exactly one outcome line, before the "Connecting to" line of the next
\* device; the device being processed has its "Connecting to" line only; a
\* "Logged in" line directly follows the "Connecting to" line of its device;
\* and a line once on the channel stays where it is.
C16_OneOutcomePerDevice ==
    /\ [](/\ Len(Progress) = IF pc \in {"loop", "done"} THEN 2 * i
                                                        ELSE 2 * i - 1
          /\ \A j \in 1..i :
                 /\ Progress[2 * j - 1] = Connecting(devices[j])
                 /\ 2 * j <= Len(Progress) => OutcomeOf(j) \in OutcomeLines(j)
          /\ \A n \in DOMAIN status :
                 status[n].msg = "Logged in to" =>
                     /\ n > 1
                     /\ status[n - 1].msg = "Connecting to"
                     /\ status[n].host
                            = HostnameOf(PromptOf(status[n - 1].dev)))
    /\ [][/\ Len(status') >= Len(status)
          /\ SubSeq(status', 1, Len(status)) = status]_vars

C16_Witness ==
    /\ pc = "done"
    /\ Len(devices) = 2
    /\ Len(status) = 5
    /\ OutcomeOf(1) = Completed(<<"R", "1">>)
    /\ OutcomeOf(2) = Skipping("auth")

====
